---- MODULE Spec2Model ----
(***************************************************************************)
(* Model of hpc_ds_utils/jlab_connector.py: the orchestration that starts  *)
(* a jupyter server in a remote tmux session and forwards its port.        *)
(*                                                                         *)
(* Every call of run_command is one atomic step.  A run is one invocation  *)
(* of a function of the module from the command line or the interactive    *)
(* shell; pc[r] is the position of run r in the code.  The remote host,    *)
(* the ssh channel and the local port table are the environment.           *)
(* Text is modelled as tuples of tokens so that the substring tests of     *)
(* the code ("x in line") can be computed as the code computes them.       *)
(* The second part models sbatch_execution_menager.py: the managers, the   *)
(* registry list of the class and one atomic step per method call.         *)
(***************************************************************************)
EXTENDS Integers, Sequences, FiniteSets, TLC

\* ------------------------------------------------------------------ bounds
MaxProbes == 3        \* status probes per run before the poll loop is cut off
MaxInvocations == 2   \* invocations made from one interactive shell
MaxFlips == 1         \* changes of the ssh channel's availability
MaxList == 2          \* commands in one list given to execute_commands
MaxRegistry == 2      \* commands a registry holds before the model stops adding

\* ------------------------------------------------------------- the inputs
Runs == {1, 2}
Targets == {"host1", "host2"}
NoSess == <<>>
SessMain == <<"M">>
SessMain2 == <<"M", "2">>
SessWork == <<"w">>
EnvPy == <<"p", "y">>
EnvPy9 == <<"p", "y", "9">>
PLocal == 8000
PLocalAlt == 8001
PRemote == 80
PRemoteLong == 8080
RemotePorts == {PRemote, PRemoteLong}
Funcs == {"jp_start", "check_server_up",
          "create_bash_conda_file", "copy_conda_initialize_in_bash_conda_file"}

Managers == {"m1", "m2"}
Commands == {"a", "b"}
\* the lists that exist: the one of the class and one per instance that loaded a file
Lists == {"class"} \cup Managers
NotBuilt == [built |-> FALSE, dry_run |-> TRUE, renders |-> FALSE, path |-> "default",
             from_file |-> FALSE, own |-> <<>>]
NoFile == [exists |-> FALSE, content |-> <<>>]
NoCall == [fn |-> "none", m |-> "m1", exc |-> "none", result |-> <<>>]

NoArgs == [func |-> "none", target |-> "host1", p_local |-> PLocal,
           p_remote |-> PRemote, tmux_session_name |-> SessMain, conda_env |-> EnvPy]

VARIABLES
    pc,         \* pc[r]: position of run r
    args,       \* args[r]: the function invoked and its arguments
    caller,     \* caller[r]: who called check_if_jp_server_is_running
    step,       \* step[r]: index into the command list of start_jupyter_server_remote
    log,        \* log[r]: the commands run r issued, in order, with their results
    probeRes,   \* probeRes[r]: results of the status probes of run r, in order
    outcome,    \* outcome[r]: "running", the return value, or the error raised
    inv,        \* inv[r]: invocations made so far by shell r
    clean,      \* clean[r]: nothing but run r's own probe changed the world since its probe began
    hist,       \* outcomes of the probes completed since the world last changed
    localBusy,  \* local ports that have a socket
    remote,     \* remote[t]: files, sessions, sockets, environments of host t
    chanUp,     \* chanUp[t]: ssh to t connects
    flips,      \* channel changes so far
    bootstrapped, \* bootstrapped[t]: a bootstrap step of a probe has succeeded on host t
    \* sbatch_execution_menager.py
    command_registry, \* the list held by the class SbatchJobExecutionManager
    instance,   \* instance[m]: the attributes of manager m, NotBuilt before __init__
    submitted,  \* submitted[o]: the commands sbatch accepted for the list o, in order
    registry_file, \* the pickled list at the custom registry path, NoFile if none
    call        \* the last method call and how it ended

connector == <<pc, args, caller, step, log, probeRes, outcome, inv, clean, hist,
               localBusy, remote, chanUp, flips, bootstrapped>>

batch == <<command_registry, instance, submitted, registry_file, call>>

vars == <<pc, args, caller, step, log, probeRes, outcome, inv, clean, hist,
          localBusy, remote, chanUp, flips, bootstrapped,
          command_registry, instance, submitted, registry_file, call>>

\* ------------------------------------------------------------------ text
Contains(sub, s) ==
    \E i \in 0..(Len(s) - Len(sub)) : SubSeq(s, i + 1, i + Len(sub)) = sub

Digit(d) == CASE d = 0 -> "0" [] d = 1 -> "1" [] d = 2 -> "2" [] d = 3 -> "3"
              [] d = 4 -> "4" [] d = 5 -> "5" [] d = 6 -> "6" [] d = 7 -> "7"
              [] d = 8 -> "8" [] OTHER -> "9"

RECURSIVE str(_)
str(n) == IF n < 10 THEN <<Digit(n)>> ELSE str(n \div 10) \o <<Digit(n % 10)>>

\* ------------------------------------------------------ command texts
\* A command text: dq = it contains a segment in double quotes,
\* meta = that segment contains shell operators (< > ;).
CmdText(c) ==
    CASE c = "check_file" -> [dq |-> TRUE, meta |-> FALSE]
      [] c = "scan" -> [dq |-> TRUE, meta |-> TRUE]
      [] OTHER -> [dq |-> FALSE, meta |-> FALSE]

\* ssh_minus_tt wraps the text in double quotes and run_command splits it
\* with shlex: inner double quotes end the outer ones, so an inner segment
\* reaches the remote shell unquoted, and operators in it are a syntax error.
ssh_minus_tt(x) == ~(x.dq /\ x.meta)

\* ------------------------------------------------- the remote programs
Exists(f) == f # "absent"

server_list(t) ==
    {<<"h", ":">> \o str(p) \o <<"/">> : p \in {q \in RemotePorts : remote[t].listen[q] = "jupyter"}}

env_list(t) == {<<"#">>} \cup {e \o <<" ">> : e \in remote[t].envs}

tmux_ls(t) == {s \o <<":">> : s \in remote[t].sessions}

\* exit status 0 of the remote command c issued with arguments a
\* (run_command has check=True: any other status raises CalledProcessError).
\* ssh -tt returns the status of the remote command, or fails to connect:
\*   query        source .bash_conda; conda activate env; jupyter server list
\*                needs the initialization in the file and the environment
\*   tmux_ls      tmux ls fails when no session (no tmux server) exists
\*   kill         tmux kill-session fails when the session does not exist
\*   lsof_remote  lsof -i :port fails when nothing uses the port
\*   new_session  tmux new-session fails on a duplicate session name
\*   the other tmux commands need a running tmux server
Exit0(c, a) ==
    LET R == remote[a.target] IN
    /\ chanUp[a.target]
    /\ ssh_minus_tt(CmdText(c))
    /\ CASE c = "query" -> R.file = "full" /\ a.conda_env \in R.envs
         [] c = "tmux_ls" -> R.sessions # {}
         [] c = "kill" -> a.tmux_session_name \in R.sessions
         [] c = "lsof_remote" -> R.listen[a.p_remote] # "none"
         [] c = "new_session" -> a.tmux_session_name \notin R.sessions
         [] c \in {"send_ctrl_c", "rename", "split", "activate", "launch"} -> R.sessions # {}
         [] OTHER -> TRUE

\* ------------------------------------------------------------- helpers
Go(p) == [pc |-> p, out |-> "running"]
Raise(e) == [pc |-> "done", out |-> e]
Finish(v) == [pc |-> "done", out |-> v]

Entry(c, ok, out, exact) == [c |-> c, ok |-> ok, out |-> out, exact |-> exact]

Jump(r, nx) ==
    /\ pc' = [pc EXCEPT ![r] = nx.pc]
    /\ outcome' = [outcome EXCEPT ![r] = nx.out]

Logged(r, e) == log' = [log EXCEPT ![r] = Append(@, e)]

\* the world changed by something other than a probe's own bootstrap
Disturbed ==
    /\ hist' = <<>>
    /\ clean' = [r \in Runs |-> FALSE]

Quiet == UNCHANGED <<hist, clean>>

\* run r's own bootstrap changed the remote file
Bootstrapped(r) ==
    /\ hist' = hist
    /\ clean' = [x \in Runs |-> x = r /\ clean[r]]

InProbe(r) == args[r].func \in {"jp_start", "check_server_up"}

\* check_if_jp_server_is_running of run r ends with the result res
ProbeEnds(r, res) ==
    /\ probeRes' = [probeRes EXCEPT ![r] = Append(@, res)]
    /\ hist' = IF clean[r] THEN Append(hist, res) ELSE hist
    /\ clean' = clean

\* check_if_jp_server_is_running of run r begins
ProbeBegins(r) == clean' = [clean EXCEPT ![r] = TRUE]


\* ----------------------------------------------------------- initial state
RemoteStates ==
    [file : {"absent", "empty", "full"},
     bashrc : BOOLEAN,
     sessions : SUBSET {SessMain, SessMain2, SessWork},
     listen : {f \in [RemotePorts -> {"none", "foreign", "jupyter"}] : f[PRemoteLong] # "foreign"},
     launch : {[p \in RemotePorts |-> NoSess]},
     envs : SUBSET {EnvPy, EnvPy9}]

FreshRemote ==
    [file |-> "full", bashrc |-> TRUE, sessions |-> {},
     listen |-> [p \in RemotePorts |-> "none"],
     launch |-> [p \in RemotePorts |-> NoSess], envs |-> {EnvPy}]

InitRuns ==
    /\ pc = [r \in Runs |-> "idle"]
    /\ args = [r \in Runs |-> NoArgs]
    /\ caller = [r \in Runs |-> "cli"]
    /\ step = [r \in Runs |-> 1]
    /\ log = [r \in Runs |-> <<>>]
    /\ probeRes = [r \in Runs |-> <<>>]
    /\ outcome = [r \in Runs |-> "idle"]
    /\ inv = [r \in Runs |-> 0]
    /\ clean = [r \in Runs |-> FALSE]
    /\ hist = <<>>
    /\ flips = 0
    /\ bootstrapped = [t \in Targets |-> FALSE]
    /\ command_registry = <<>>
    /\ instance = [m \in Managers |-> NotBuilt]
    /\ submitted = [o \in Lists |-> <<>>]
    /\ registry_file = NoFile
    /\ call = NoCall

Init ==
    /\ InitRuns
    /\ localBusy \in SUBSET {PLocal}
    /\ \E R \in RemoteStates : remote = [t \in Targets |-> IF t = "host1" THEN R ELSE FreshRemote]
    /\ chanUp \in {[t \in Targets |-> b] : b \in BOOLEAN}

\* ------------------------------------------------------------ invocation
EntryPoint(f) ==
    CASE f = "jp_start" -> "local"
      [] f = "check_server_up" -> "check_file"
      [] f = "create_bash_conda_file" -> "touch"
      [] OTHER -> "copy"

\* main_func / do_jpc: run r starts function f on target t
Invoke(r, f, t) ==
    /\ pc[r] \in {"idle", "done"}
    /\ inv[r] < MaxInvocations
    /\ inv' = [inv EXCEPT ![r] = @ + 1]
    /\ args' = [args EXCEPT ![r] = [NoArgs EXCEPT !.func = f, !.target = t]]
    /\ Jump(r, Go(EntryPoint(f)))
    /\ caller' = [caller EXCEPT ![r] = "cli"]
    /\ step' = [step EXCEPT ![r] = 1]
    /\ log' = [log EXCEPT ![r] = <<>>]
    /\ probeRes' = [probeRes EXCEPT ![r] = <<>>]
    /\ hist' = hist
    /\ clean' = [clean EXCEPT ![r] = (f = "check_server_up")]
    /\ UNCHANGED <<batch, localBusy, remote, chanUp, flips, bootstrapped>>

\* ------------------------------------------------------- jp_start_func
\* a guard that logs the occupied port and goes on
port_guard_falls_through(busy) == Go("check_file")

\* lines 372-375: the local port guard
jp_start_func_port_guard(busy) ==
    IF busy THEN Raise("PortInUseError") ELSE Go("check_file")

\* a start that lists the sessions whatever the first probe returned
probe_result_is_ignored(up) == Go("tmux_ls")

\* line 375: the first probe decides between tunnelling and starting
jp_start_func_after_probe(up) ==
    IF up THEN Go("sleep") ELSE Go("tmux_ls")

\* a listing whose result is not acted upon
listing_never_kills(running) == Go("lsof_remote")

\* lines 376-377
jp_start_func_after_listing(running) ==
    IF running THEN Go("kill") ELSE Go("lsof_remote")

\* a collision check that logs the occupied port and starts the server
collision_falls_through(busy) == Go("start")

\* lines 378-383
jp_start_func_collision(busy) ==
    IF busy THEN Raise("RemotePortInUseError") ELSE Go("start")

\* a loop without the break
loop_never_breaks(up) == Go("sleep")

\* a loop that leaves after the first probe whatever it returned
loop_breaks_at_once(up) == Go("forward")

\* a loop that starts the server again after a Down probe
loop_restarts_server(up) ==
    IF up THEN Go("forward") ELSE Go("start")

\* a loop that gives up after a Down probe
loop_gives_up(up) ==
    IF up THEN Go("forward") ELSE Raise("TimeoutError")

\* lines 336-343: the loop of tunnel_jupyter_ports
tunnel_jupyter_ports_loop(up) ==
    IF up THEN Go("forward") ELSE Go("sleep")

\* the value check_if_jp_server_is_running returns goes to its caller
Return(r, up) ==
    CASE caller[r] = "main" -> jp_start_func_after_probe(up)
      [] caller[r] = "poll" -> tunnel_jupyter_ports_loop(up)
      [] OTHER -> Finish(IF up THEN "True" ELSE "False")

\* ------------------------------------------------------- port queries
\* the lsof executable of the local machine: on the PATH or not
LsofLocal == {"present", "absent"}

\* lines 49-50: subprocess.run with check=True returns when the command exits
\* with 0, raises CalledProcessError when it exits with another status and
\* FileNotFoundError when the executable cannot be found
run_command(found, exit0) ==
    CASE found = "absent" -> "FileNotFoundError"
      [] exit0 -> "returned"
      [] OTHER -> "CalledProcessError"

\* the lines of the output of a successful lsof -i: a header, the sockets and
\* the empty string after the last newline
lsof_stdout == <<"COMMAND", "python", "">>

\* lines 290-296 and 311-317: status is False, set to True when the command
\* returned and its output split on newlines is not empty; CalledProcessError
\* is passed over
check_port_in_use_status(res) ==
    res = "returned" /\ Len(lsof_stdout) > 0

\* lines 312-317: only CalledProcessError is caught
check_port_in_use_local_except(res, status) ==
    IF res = "FileNotFoundError" THEN Raise("FileNotFoundError")
    ELSE jp_start_func_port_guard(status)

\* lsof -i:p_local exits with 0 when a socket uses the port
check_port_in_use_local(r) ==
    /\ pc[r] = "local"
    /\ \E found \in LsofLocal :
          LET busy == args[r].p_local \in localBusy
              res == run_command(found, busy)
              status == check_port_in_use_status(res)
          IN /\ log' = [log EXCEPT ![r] =
                          IF found = "present"
                          THEN Append(@, Entry("lsof_local", res = "returned", status, busy))
                          ELSE @]
             /\ Jump(r, check_port_in_use_local_except(res, status))
             /\ clean' = [clean EXCEPT ![r] = (found = "present" /\ ~status)]
    /\ caller' = [caller EXCEPT ![r] = "main"]
    /\ UNCHANGED <<batch, args, step, probeRes, inv, hist, localBusy, remote, chanUp, flips, bootstrapped>>


\* ------------------------------------- check_if_jp_server_is_running
\* the test of line 257 without its "not"
bootstrap_when_present(exists) ==
    IF exists THEN Go("scan") ELSE Go("query")

\* line 257: bootstrap only when the file check says the file is missing
check_if_jp_server_is_running_bootstrap(exists) ==
    IF exists THEN Go("query") ELSE Go("scan")

\* lines 259-264
check_if_jp_server_is_running_init(found) ==
    IF found THEN Go("touch") ELSE Raise("BootstrapError")

\* lines 265-268: after the copy the status query follows
check_if_jp_server_is_running_after_copy == Go("query")

\* lines 272-277: the error raised after the status query failed
check_if_jp_server_is_running_classify(status) ==
    IF ~status THEN "EnvironmentNotFoundError" ELSE "ProbeError"

\* an error leaves check_if_jp_server_is_running (when run r is inside it)
Fails(r, e) ==
    /\ Jump(r, Raise(e))
    /\ IF InProbe(r) THEN ProbeEnds(r, e) ELSE (Quiet /\ UNCHANGED probeRes)

\* a test that creates the file it looks for
test_creates_file(f) == IF f = "absent" THEN "empty" ELSE f

\* [ -f .bash_conda ] && echo ... || echo ...: the test leaves the file as it is
Tested(f) == f

FileCheckStdout(t) ==
    IF Exists(remote[t].file) THEN {<<"File", "exist">>}
    ELSE {<<"File", "does", "not", "exist">>}

check_exists_bash_conda_file(r) ==
    /\ pc[r] = "check_file"
    /\ LET a == args[r]
           ok == Exit0("check_file", a)
           status == \E i \in FileCheckStdout(a.target) : Contains(<<"File", "exist">>, i)
       IN /\ Logged(r, Entry("check_file", ok, ok /\ status, Exists(remote[a.target].file)))
          /\ IF ok
             THEN /\ Jump(r, check_if_jp_server_is_running_bootstrap(status))
                  /\ Quiet
                  /\ UNCHANGED probeRes
             ELSE Fails(r, "CalledProcessError")
          /\ bootstrapped' = [bootstrapped EXCEPT ![a.target] = @ \/ (ok /\ status)]
          /\ remote' = [remote EXCEPT ![a.target].file = IF ok THEN Tested(@) ELSE @]
    /\ UNCHANGED <<batch, args, caller, step, inv, localBusy, chanUp, flips>>

BashrcStdout(t) ==
    IF remote[t].bashrc THEN <<"#", ">>>", "conda initialize", ">>>">> ELSE <<>>

check_conda_init_in_bashrc(r) ==
    /\ pc[r] = "scan"
    /\ LET a == args[r]
           ok == Exit0("scan", a)
           status == Contains(<<"conda initialize">>, BashrcStdout(a.target))
       IN /\ Logged(r, Entry("scan", ok, ok /\ status, remote[a.target].bashrc))
          /\ IF ok
             THEN LET nx == check_if_jp_server_is_running_init(status)
                  IN IF nx.pc = "done" THEN Fails(r, nx.out)
                     ELSE Jump(r, nx) /\ Quiet /\ UNCHANGED probeRes
             ELSE Fails(r, "CalledProcessError")
    /\ UNCHANGED <<batch, args, caller, step, inv, localBusy, remote, chanUp, flips, bootstrapped>>

\* touch .bash_conda
Touch(f) == IF f = "absent" THEN "empty" ELSE f

\* sed -n '...' .bashrc > .bash_conda
Copy(f, bashrc) == IF bashrc THEN "full" ELSE "empty"

create_bash_conda_file(r) ==
    /\ pc[r] = "touch"
    /\ LET a == args[r]
           ok == Exit0("touch", a)
       IN /\ Logged(r, Entry("touch", ok, FALSE, FALSE))
          /\ IF ok
             THEN /\ remote' = [remote EXCEPT ![a.target].file = Touch(@)]
                  /\ UNCHANGED probeRes
                  /\ IF InProbe(r)
                     THEN Jump(r, Go("copy")) /\ Bootstrapped(r)
                     ELSE Jump(r, Finish("None")) /\ Disturbed
             ELSE /\ Fails(r, "CalledProcessError")
                  /\ UNCHANGED remote
    /\ UNCHANGED <<batch, args, caller, step, inv, localBusy, chanUp, flips, bootstrapped>>

copy_conda_initialize_in_bash_conda_file(r) ==
    /\ pc[r] = "copy"
    /\ LET a == args[r]
           ok == Exit0("copy", a)
       IN /\ Logged(r, Entry("copy", ok, FALSE, FALSE))
          /\ IF ok
             THEN /\ remote' = [remote EXCEPT ![a.target].file = Copy(@, remote[a.target].bashrc)]
                  /\ UNCHANGED probeRes
                  /\ IF InProbe(r)
                     THEN Jump(r, check_if_jp_server_is_running_after_copy) /\ Bootstrapped(r)
                     ELSE Jump(r, Finish("None")) /\ Disturbed
             ELSE /\ Fails(r, "CalledProcessError")
                  /\ UNCHANGED remote
          /\ bootstrapped' = [bootstrapped EXCEPT ![a.target] = @ \/ (ok /\ InProbe(r))]
    /\ UNCHANGED <<batch, args, caller, step, inv, localBusy, chanUp, flips>>

check_running_server(r) ==
    /\ pc[r] = "query"
    /\ LET a == args[r]
           ok == Exit0("query", a)
           status == \E i \in server_list(a.target) : Contains(str(a.p_remote), i)
       IN /\ Logged(r, Entry("query", ok, ok /\ status, remote[a.target].listen[a.p_remote] = "jupyter"))
          /\ IF ok
             THEN /\ Jump(r, Return(r, status))
                  /\ ProbeEnds(r, IF status THEN "up" ELSE "down")
             ELSE /\ Jump(r, Go("envs"))
                  /\ Quiet
                  /\ UNCHANGED probeRes
    /\ UNCHANGED <<batch, args, caller, step, inv, localBusy, remote, chanUp, flips, bootstrapped>>

check_conda_env_exists(r) ==
    /\ pc[r] = "envs"
    /\ LET a == args[r]
           ok == Exit0("envs", a)
           status == \E i \in env_list(a.target) : Contains(a.conda_env, i)
       IN /\ Logged(r, Entry("envs", ok, ok /\ status, a.conda_env \in remote[a.target].envs))
          /\ IF ok
             THEN Fails(r, check_if_jp_server_is_running_classify(status))
             ELSE Fails(r, "CalledProcessError")
    /\ UNCHANGED <<batch, args, caller, step, inv, localBusy, remote, chanUp, flips, bootstrapped>>


\* ---------------------------------------------------- session lifecycle
check_tmux_session_running(r) ==
    /\ pc[r] = "tmux_ls"
    /\ LET a == args[r]
           ok == Exit0("tmux_ls", a)
           status == \E i \in tmux_ls(a.target) : Contains(a.tmux_session_name, i)
       IN /\ Logged(r, Entry("tmux_ls", ok, ok /\ status,
                             a.tmux_session_name \in remote[a.target].sessions))
          \* line 224-226: after the except clause res_cmd is not bound
          /\ IF ok
             THEN Jump(r, jp_start_func_after_listing(status))
             ELSE Jump(r, Raise("UnboundLocalError"))
    /\ Quiet
    /\ UNCHANGED <<batch, args, caller, step, probeRes, inv, localBusy, remote, chanUp, flips, bootstrapped>>

\* tmux kill-session -t n: the session and the server started in it are gone
Killed(R, n) ==
    [R EXCEPT !.sessions = @ \ {n},
              !.launch = [p \in RemotePorts |-> IF @[p] = n THEN NoSess ELSE @[p]],
              !.listen = [p \in RemotePorts |->
                            IF R.launch[p] = n /\ @[p] = "jupyter" THEN "none" ELSE @[p]]]

\* a kill whose failure is raised to the caller
kill_error_is_raised(ok) ==
    IF ok THEN Go("lsof_remote") ELSE Raise("CalledProcessError")

\* lines 237-241 and 378: the failure of the kill command is logged and
\* swallowed; either way jp_start_func goes on to the remote port check
kill_tmux_session_except(ok) == Go("lsof_remote")

kill_tmux_session(r) ==
    /\ pc[r] = "kill"
    /\ LET a == args[r]
           ok == Exit0("kill", a)
       IN /\ Logged(r, Entry("kill", ok, FALSE, FALSE))
          /\ IF ok
             THEN /\ remote' = [remote EXCEPT ![a.target] = Killed(@, a.tmux_session_name)]
                  /\ Disturbed
             ELSE UNCHANGED remote /\ Quiet
          /\ Jump(r, kill_tmux_session_except(ok))
    /\ UNCHANGED <<batch, args, caller, step, probeRes, inv, localBusy, chanUp, flips, bootstrapped>>

check_port_in_use_remote(r) ==
    /\ pc[r] = "lsof_remote"
    /\ LET a == args[r]
           ok == Exit0("lsof_remote", a)
           status == check_port_in_use_status(run_command("present", ok))
       IN /\ Logged(r, Entry("lsof_remote", ok, status, remote[a.target].listen[a.p_remote] = "foreign"))
          /\ Jump(r, jp_start_func_collision(status))
    /\ Quiet
    /\ UNCHANGED <<batch, args, caller, step, probeRes, inv, localBusy, remote, chanUp, flips, bootstrapped>>

\* lines 78-79: the command list of start_jupyter_server_remote
StartCmds == <<"new_session", "send_ctrl_c", "rename", "split", "activate", "launch">>

\* a tmux server that accepts a session name it already has
session_is_not_recorded(R, i, a) == R

\* the effect of the i-th command on the remote host
Started(R, i, a) ==
    CASE i = 1 -> [R EXCEPT !.sessions = @ \cup {a.tmux_session_name}]
      [] i = 6 -> [R EXCEPT !.launch[a.p_remote] =
                        IF R.listen[a.p_remote] = "none" THEN a.tmux_session_name ELSE @]
      [] OTHER -> R

\* a port check made after the server was launched
collision_check_after_start(i) ==
    IF i < Len(StartCmds) THEN [pc |-> "start", step |-> i + 1]
    ELSE [pc |-> "lsof_remote", step |-> 1]

\* lines 77-85: the loop over the command list
start_jupyter_server_remote_next(i) ==
    IF i < Len(StartCmds) THEN [pc |-> "start", step |-> i + 1]
    ELSE [pc |-> "sleep", step |-> 1]

\* a sequence that logs the failure of a step and goes on with the next one
start_error_is_swallowed(i) ==
    [pc |-> start_jupyter_server_remote_next(i).pc, out |-> "running",
     step |-> start_jupyter_server_remote_next(i).step]

\* lines 82-84: the failure of step i is logged and raised again; nothing is
\* issued to undo the steps before it
start_jupyter_server_remote_except(i) ==
    [pc |-> "done", out |-> "CalledProcessError", step |-> i]

start_jupyter_server_remote(r) ==
    /\ pc[r] = "start"
    /\ LET a == args[r]
           i == step[r]
           ok == Exit0(StartCmds[i], a)
           nx == IF ok
                 THEN [pc |-> start_jupyter_server_remote_next(i).pc, out |-> "running",
                       step |-> start_jupyter_server_remote_next(i).step]
                 ELSE start_jupyter_server_remote_except(i)
       IN /\ Logged(r, Entry(StartCmds[i], ok, FALSE, FALSE))
          /\ Jump(r, nx)
          /\ step' = [step EXCEPT ![r] = nx.step]
          /\ IF ok
             THEN /\ remote' = [remote EXCEPT ![a.target] = Started(@, i, a)]
                  /\ Disturbed
             ELSE /\ UNCHANGED remote
                  /\ Quiet
    /\ UNCHANGED <<batch, args, caller, probeRes, inv, localBusy, chanUp, flips, bootstrapped>>

\* ------------------------------------------------- tunnel_jupyter_ports
\* lines 338-341: status is "down": sleep, then probe again
tunnel_jupyter_ports_wait(r) ==
    /\ pc[r] = "sleep"
    /\ Len(probeRes[r]) < MaxProbes
    /\ Jump(r, Go("check_file"))
    /\ caller' = [caller EXCEPT ![r] = "poll"]
    /\ ProbeBegins(r)
    /\ UNCHANGED <<batch, args, step, log, probeRes, inv, hist, localBusy, remote, chanUp, flips, bootstrapped>>

\* a forwarding command that is tried again when it fails
forward_is_retried(ok) ==
    IF ok THEN Finish("ok") ELSE Go("forward")

\* lines 350-355 and 386-388: the error of the forwarding command is raised
\* again; after a success jp_start_func opens the browser and returns
tunnel_jupyter_ports_after_forward(ok) ==
    IF ok THEN Finish("ok") ELSE Raise("CalledProcessError")

\* a forwarding command that takes both local ports
binds_every_port(L, p) == L \cup {PLocal, PLocalAlt}

\* lines 349-351: ssh -L binds the local port p_local and no other
Bound(L, p) == L \cup {p}

\* lines 349-355: ssh -N -f -L localhost:p_local:localhost:p_remote target
tunnel_jupyter_ports_forward(r) ==
    /\ pc[r] = "forward"
    /\ LET a == args[r]
           ok == Exit0("forward", a)
       IN /\ Logged(r, Entry("forward", ok, FALSE, FALSE))
          /\ Jump(r, tunnel_jupyter_ports_after_forward(ok))
          /\ IF ok
             THEN /\ localBusy' = Bound(localBusy, a.p_local)
                  /\ Disturbed
             ELSE /\ UNCHANGED localBusy
                  /\ Quiet
    /\ UNCHANGED <<batch, args, caller, step, probeRes, inv, remote, chanUp, flips, bootstrapped>>

\* ---------------------------------------------------------- environment
\* the jupyter server typed into the session has started listening
ServiceBoot(t) ==
    /\ \E p \in RemotePorts :
          /\ remote[t].launch[p] # NoSess
          /\ remote[t].listen[p] = "none"
          /\ remote' = [remote EXCEPT ![t].listen[p] = "jupyter"]
    /\ Disturbed
    /\ UNCHANGED <<batch, pc, args, caller, step, log, probeRes, outcome, inv, localBusy, chanUp, flips, bootstrapped>>

\* the ssh connection to t is lost or comes back
ChannelFlip(t) ==
    /\ flips < MaxFlips
    /\ flips' = flips + 1
    /\ chanUp' = [chanUp EXCEPT ![t] = ~@]
    /\ Disturbed
    /\ UNCHANGED <<batch, pc, args, caller, step, log, probeRes, outcome, inv, localBusy, remote, bootstrapped>>

\* ------------------------------------------------------- specification
Program(r) ==
    \/ check_port_in_use_local(r)
    \/ check_exists_bash_conda_file(r)
    \/ check_conda_init_in_bashrc(r)
    \/ create_bash_conda_file(r)
    \/ copy_conda_initialize_in_bash_conda_file(r)
    \/ check_running_server(r)
    \/ check_conda_env_exists(r)
    \/ check_tmux_session_running(r)
    \/ kill_tmux_session(r)
    \/ check_port_in_use_remote(r)
    \/ start_jupyter_server_remote(r)
    \/ tunnel_jupyter_ports_wait(r)
    \/ tunnel_jupyter_ports_forward(r)

\* one interactive shell working on host1
Next ==
    \/ \E f \in Funcs : Invoke(1, f, "host1")
    \/ Program(1)
    \/ ServiceBoot("host1")
    \/ ChannelFlip("host1")

Spec == Init /\ [][Next]_vars

\* The program is one sequential process: time.sleep(15) returns, and so does
\* subprocess.run of each command, so a run that has a next statement
\* executes it. The starting states are those of a host that is reachable,
\* has the environment and at least one tmux session, with the local port free.
LiveInit ==
    /\ InitRuns
    /\ localBusy = {}
    /\ chanUp = [t \in Targets |-> TRUE]
    /\ \E f \in {"absent", "full"}, S \in {{SessWork}, {SessMain, SessWork}},
          l \in {"none", "jupyter"} :
          remote = [t \in Targets |->
                      IF t = "host1"
                      THEN [FreshRemote EXCEPT !.file = f, !.sessions = S, !.listen[PRemote] = l]
                      ELSE FreshRemote]

LiveSpec == LiveInit /\ [][Next]_vars /\ WF_vars(Program(1))

\* ================================================ sbatch_execution_menager
\* self.command_registry: the attribute of the instance when load_registry
\* has set one, the attribute of the class otherwise
\* an __init__ that gives every instance a list of its own
every_instance_has_own_list(i) == TRUE

\* lines 117, 165-166 and 252-255: only load_registry assigns
\* self.command_registry; __init__ does not
has_own_list(i) == i.from_file

ListOf(m) == IF has_own_list(instance[m]) THEN m ELSE "class"

command_registry_of(m) ==
    IF has_own_list(instance[m]) THEN instance[m].own ELSE command_registry

\* self.command_registry.append(...) and pop() change the list in place
Stored(m, l) ==
    /\ command_registry' = IF has_own_list(instance[m]) THEN command_registry ELSE l
    /\ instance' = IF has_own_list(instance[m]) THEN [instance EXCEPT ![m].own = l]
                   ELSE instance

\* the inputs of execute_commands: a string, a list of strings, something else
Inputs ==
    {[kind |-> "str", cmds |-> <<c>>] : c \in Commands}
      \cup {[kind |-> "list", cmds |-> l] : l \in UNION {[1..n -> Commands] : n \in 0..MaxList}}
      \cup {[kind |-> "other", cmds |-> <<>>]}

\* lines 118-166: an instance with its own attributes: with a loaded list only
\* when a file exists at its registry path
\* line 112-113: the default path lies below the module file and never exists
load_registry(path) ==
    IF path = "custom" /\ registry_file.exists
    THEN [from_file |-> TRUE, own |-> registry_file.content]
    ELSE [from_file |-> FALSE, own |-> <<>>]

SbatchJobExecutionManager(m, dry_run, renders, path) ==
    /\ ~instance[m].built
    /\ instance' = [instance EXCEPT ![m] =
                      [built |-> TRUE, dry_run |-> dry_run, renders |-> renders, path |-> path,
                       from_file |-> load_registry(path).from_file,
                       own |-> load_registry(path).own]]
    /\ submitted' = [submitted EXCEPT ![m] = load_registry(path).own]
    /\ call' = [NoCall EXCEPT !.fn = "__init__", !.m = m]
    /\ UNCHANGED <<connector, command_registry, registry_file>>

\* lines 177-181: the commands are appended before anything else is done
recorded(l, x) == l \o x.cmds

\* lines 98-105: os.path.join(output, job_name) raises TypeError when output
\* or job_name is None (the defaults)
generate_sbatch_scripts(renders) == IF renders THEN "none" ELSE "TypeError"

\* lines 186-191: one pop for each script printed
dry_run_pops(l, n) == SubSeq(l, 1, Len(l) - n)

\* lines 194-210: the scripts are submitted in order; the first failure of
\* sbatch is raised again; k is the number of scripts sbatch accepted
sbatch(x, k) ==
    [accepted |-> SubSeq(x.cmds, 1, k),
     exc |-> IF k < Len(x.cmds) THEN "CalledProcessError" ELSE "none"]

\* lines 169-212: execute_commands of manager m with input x
Execute(fn, m, x) ==
    LET before == command_registry_of(m)
        gen == IF x.cmds = <<>> THEN "none" ELSE generate_sbatch_scripts(instance[m].renders)
    IN /\ Len(before) + Len(x.cmds) <= MaxRegistry
       /\ UNCHANGED <<connector, registry_file>>
       /\ IF x.kind = "other"
          THEN /\ call' = [NoCall EXCEPT !.fn = fn, !.m = m, !.exc = "NotImplementedError"]
               /\ UNCHANGED <<command_registry, instance, submitted>>
          ELSE IF gen # "none"
          THEN /\ Stored(m, recorded(before, x))
               /\ call' = [NoCall EXCEPT !.fn = fn, !.m = m, !.exc = gen]
               /\ UNCHANGED submitted
          ELSE IF instance[m].dry_run
          THEN /\ Stored(m, dry_run_pops(recorded(before, x), Len(x.cmds)))
               /\ call' = [NoCall EXCEPT !.fn = fn, !.m = m]
               /\ UNCHANGED submitted
          ELSE \E k \in 0..Len(x.cmds) :
                 /\ Stored(m, recorded(before, x))
                 /\ submitted' = [submitted EXCEPT ![ListOf(m)] = @ \o sbatch(x, k).accepted]
                 /\ call' = [NoCall EXCEPT !.fn = fn, !.m = m, !.exc = sbatch(x, k).exc]

execute_commands(m, x) ==
    /\ instance[m].built
    /\ Execute("execute_commands", m, x)

\* lines 243-245: execute_commands with a copy of the registry
re_execute_all(m) ==
    /\ instance[m].built
    /\ Execute("re_execute_all", m, [kind |-> "list", cmds |-> command_registry_of(m)])

\* lines 234-236
get_executed_commands(m) ==
    /\ instance[m].built
    /\ call' = [NoCall EXCEPT !.fn = "get_executed_commands", !.m = m,
                              !.result = command_registry_of(m)]
    /\ UNCHANGED <<connector, command_registry, instance, submitted, registry_file>>

\* lines 247-250: the list is pickled to the registry path; the default path
\* lies below a regular file and cannot be opened
save_registry(m) ==
    /\ instance[m].built
    /\ IF instance[m].path = "custom"
       THEN /\ registry_file' = [exists |-> TRUE, content |-> command_registry_of(m)]
            /\ call' = [NoCall EXCEPT !.fn = "save_registry", !.m = m]
       ELSE /\ UNCHANGED registry_file
            /\ call' = [NoCall EXCEPT !.fn = "save_registry", !.m = m,
                                      !.exc = "NotADirectoryError"]
    /\ UNCHANGED <<connector, command_registry, instance, submitted>>

\* one python process that builds managers and calls their methods
BatchInit ==
    /\ InitRuns
    /\ localBusy = {}
    /\ chanUp = [t \in Targets |-> TRUE]
    /\ remote = [t \in Targets |-> FreshRemote]

BatchNext ==
    \/ \E m \in Managers, d \in BOOLEAN, g \in BOOLEAN, p \in {"default", "custom"} :
          SbatchJobExecutionManager(m, d, g, p)
    \/ \E m \in Managers, x \in Inputs : execute_commands(m, x)
    \/ \E m \in Managers : re_execute_all(m)
    \/ \E m \in Managers : get_executed_commands(m)
    \/ \E m \in Managers : save_registry(m)

BatchSpec == BatchInit /\ [][BatchNext]_vars

\* --------------------------------------------------- two concurrent runs
\* Two processes started on the same local machine, each running main_func
\* once with its own arguments; their commands interleave in any order.
\* lines 452-461: main_func calls the function with the parsed arguments
main_func(r, f, t, p) ==
    /\ pc[r] = "idle"
    /\ inv[r] = 0
    /\ inv' = [inv EXCEPT ![r] = 1]
    /\ args' = [args EXCEPT ![r] = [NoArgs EXCEPT !.func = f, !.target = t, !.p_local = p]]
    /\ Jump(r, Go(EntryPoint(f)))
    /\ caller' = [caller EXCEPT ![r] = "cli"]
    /\ step' = [step EXCEPT ![r] = 1]
    /\ log' = [log EXCEPT ![r] = <<>>]
    /\ probeRes' = [probeRes EXCEPT ![r] = <<>>]
    /\ hist' = hist
    /\ clean' = [clean EXCEPT ![r] = (f = "check_server_up")]
    /\ UNCHANGED <<batch, localBusy, remote, chanUp, flips, bootstrapped>>

\* both hosts are reachable, have the environment and a tmux server with a
\* session of another name; the service is down and the local ports are free
ConcInit ==
    /\ InitRuns
    /\ localBusy = {}
    /\ chanUp = [t \in Targets |-> TRUE]
    /\ \E f \in {"absent", "full"} :
          remote = [t \in Targets |-> [FreshRemote EXCEPT !.file = f, !.sessions = {SessWork}]]

ConcNext ==
    \/ \E r \in Runs, f \in Funcs, t \in Targets, p \in {PLocal, PLocalAlt} : main_func(r, f, t, p)
    \/ \E r \in Runs : Program(r)
    \/ \E t \in Targets : ServiceBoot(t)
    \/ \E t \in Targets : ChannelFlip(t)

ConcSpec == ConcInit /\ [][ConcNext]_vars


\* ================================================================ claims
IsJp(r) == args[r].func = "jp_start"
Idx(r) == 1..Len(log[r])
Issued(r, c) == \E i \in Idx(r) : log[r][i].c = c
Count(r, c) == Cardinality({i \in Idx(r) : log[r][i].c = c})
StartSet == {StartCmds[i] : i \in 1..Len(StartCmds)}
MutatingSet == StartSet \cup {"kill", "touch", "copy", "forward"}
\* the probes made by tunnel_jupyter_ports: all but the first of the run
TunnelProbes(r) == IF probeRes[r] = <<>> THEN <<>> ELSE Tail(probeRes[r])
LocalBusySeen(r) == Len(log[r]) >= 1 /\ log[r][1].c = "lsof_local" /\ log[r][1].out
LocalFreeSeen(r) == Len(log[r]) >= 1 /\ log[r][1].c = "lsof_local" /\ ~log[r][1].out

\* C1: a run of jp_start_func whose local port query reports the port as
\* occupied has ended with the port-in-use error and has issued no command
\* but that query.
C1_PortGuard ==
    \A r \in Runs : (IsJp(r) /\ LocalBusySeen(r)) =>
        /\ pc[r] = "done"
        /\ outcome[r] = "PortInUseError"
        /\ Len(log[r]) = 1

C1_Witness ==
    \E r \in Runs : IsJp(r) /\ LocalBusySeen(r) /\ outcome[r] = "PortInUseError"

\* C2: a run of jp_start_func whose first status probe reports the service
\* down and whose remote port query reports the port occupied has failed
\* with the remote-port-in-use error and has issued no command of
\* start_jupyter_server_remote.
RemoteBusySeen(r) == \E i \in Idx(r) : log[r][i].c = "lsof_remote" /\ log[r][i].out

C2_CollisionPrecedence ==
    \A r \in Runs : (IsJp(r) /\ probeRes[r] # <<>> /\ probeRes[r][1] = "down" /\ RemoteBusySeen(r)) =>
        /\ pc[r] = "done"
        /\ outcome[r] = "RemotePortInUseError"
        /\ \A c \in StartSet : ~Issued(r, c)

C2_Witness ==
    \E r \in Runs : IsJp(r) /\ probeRes[r] = <<"down">> /\ RemoteBusySeen(r)
                    /\ outcome[r] = "RemotePortInUseError"

\* C3: in a run of jp_start_func where the service is down and the listing
\* shows a session with the target name, the command after the listing is
\* the kill-session command, and every command of
\* start_jupyter_server_remote comes after a kill-session command.
SessionListed(r, i) == log[r][i].c = "tmux_ls" /\ log[r][i].ok /\ log[r][i].exact

C3_ResetBeforeRelaunch ==
    \A r \in Runs : IsJp(r) =>
        \A i \in Idx(r) : SessionListed(r, i) =>
            /\ probeRes[r][1] = "down"
            /\ IF i = Len(log[r]) THEN pc[r] = "kill" ELSE log[r][i + 1].c = "kill"
            /\ \A j \in Idx(r) : log[r][j].c \in StartSet =>
                  \E k \in 1..(j - 1) : k > i /\ log[r][k].c = "kill"

C3_Witness ==
    \E r \in Runs : IsJp(r) /\ (\E i \in Idx(r) : SessionListed(r, i))
                    /\ Issued(r, "kill") /\ Issued(r, "new_session")

\* C4: the probes made by tunnel_jupyter_ports are K Down results followed
\* by at most one Up result and nothing after it; the forwarding command is
\* issued at most once, only after the Up result, and when it succeeds the
\* run has returned: with K Down probes and then Up, K+1 probes and one
\* forwarding command.
C4_PollTermination ==
    \A r \in Runs : IsJp(r) =>
        LET T == TunnelProbes(r)
            F == Count(r, "forward")
            Up == Len(T) >= 1 /\ T[Len(T)] = "up"
        IN /\ \A i \in 1..(Len(T) - 1) : T[i] = "down"
           /\ F <= 1
           /\ F = 1 => Up
           /\ Up => (pc[r] = "forward" /\ F = 0) \/ (pc[r] = "done" /\ F = 1)
           /\ (F = 1 /\ log[r][Len(log[r])].ok) => outcome[r] = "ok"

C4_Witness ==
    \E r \in Runs : IsJp(r) /\ TunnelProbes(r) = <<"down", "up">>
                    /\ Count(r, "forward") = 1 /\ outcome[r] = "ok"


\* C5: with the local port free, the activation file present, the service
\* down, no session with the target name, the remote port free, the channel
\* up throughout and the poll seeing Down once and then Up, a run of
\* jp_start_func issues exactly the expected commands in order and returns
\* without an error.
C5_Expected ==
    <<"lsof_local", "check_file", "query", "tmux_ls", "lsof_remote">> \o StartCmds
        \o <<"check_file", "query", "check_file", "query", "forward">>

IsPrefix(s, t) == Len(s) <= Len(t) /\ \A i \in 1..Len(s) : s[i] = t[i]

C5_Scenario(r) ==
    /\ IsJp(r)
    /\ flips = 0 /\ chanUp[args[r].target]
    /\ Len(log[r]) >= 4
    /\ LocalFreeSeen(r)
    /\ log[r][2].c = "check_file" /\ log[r][2].exact
    /\ log[r][3].c = "query" /\ log[r][3].ok /\ ~log[r][3].out
    /\ log[r][4].c = "tmux_ls" /\ ~log[r][4].exact
    /\ \A i \in Idx(r) : log[r][i].c = "lsof_remote" => ~log[r][i].ok
    /\ IsPrefix(TunnelProbes(r), <<"down", "up">>)

C5_EndToEnd ==
    \A r \in Runs : C5_Scenario(r) =>
        /\ outcome[r] \in {"running", "ok"}
        /\ IsPrefix([i \in Idx(r) |-> log[r][i].c], C5_Expected)
        /\ pc[r] = "done" => Len(log[r]) = Len(C5_Expected)

\* C6: when the status query fails and the requested environment is not
\* among the environments of the remote host, the probe raises the
\* environment-not-found error, and the run has issued no kill-session, no
\* session-start and no forwarding command.
EnvMissingSeen(r) ==
    \E i \in Idx(r) : /\ i > 1
                      /\ log[r][i].c = "envs" /\ log[r][i].ok /\ ~log[r][i].exact
                      /\ log[r][i - 1].c = "query" /\ ~log[r][i - 1].ok

C6_MissingEnvironment ==
    \A r \in Runs : (InProbe(r) /\ EnvMissingSeen(r)) =>
        /\ outcome[r] = "EnvironmentNotFoundError"
        /\ \A c \in StartSet \cup {"kill", "forward"} : ~Issued(r, c)

\* C7: once a bootstrap step of check_if_jp_server_is_running has succeeded
\* on a host, no probe issues the profile scan, the file creation or the
\* copy on that host again: a later bootstrap step goes from the file check
\* straight to the status query.
C7_BootstrapConvergence ==
    [][\A r \in Runs : (InProbe(r) /\ bootstrapped[args[r].target] /\ args'[r] = args[r]) =>
          /\ pc'[r] \notin {"scan", "touch", "copy"}
          /\ (log'[r] # log[r] /\ log'[r] # <<>>) =>
                log'[r][Len(log'[r])].c \notin {"scan", "touch", "copy"}
          /\ (pc[r] = "check_file" /\ pc'[r] # pc[r]) => pc'[r] \in {"query", "done"}]_vars

C7_Witness ==
    \E r \in Runs : /\ InProbe(r) /\ bootstrapped[args[r].target]
                    /\ Cardinality({i \in Idx(r) : log[r][i].c = "check_file" /\ log[r][i].out}) >= 2

\* C8: the calls of check_if_jp_server_is_running made with the same
\* arguments while nothing but these calls touches the remote host or the
\* channel all have the same outcome.
C8_IdempotentStatus ==
    \A i, j \in 1..Len(hist) : hist[i] = hist[j]

C8_Witness == Len(hist) >= 2

\* C9 as stated: a run that failed with the remote-port-in-use error has
\* issued no mutating command, and a run that failed with the
\* local-port-in-use error has issued nothing but the local port query.
C9_NoSideEffects ==
    \A r \in Runs : IsJp(r) =>
        /\ outcome[r] = "RemotePortInUseError" => \A c \in MutatingSet : ~Issued(r, c)
        /\ outcome[r] = "PortInUseError" => Len(log[r]) = 1

\* C9 amended: a run that failed with the remote-port-in-use error has
\* issued no session-start step and no forwarding command, and it has
\* issued the kill-session command once if the session listing matched the
\* target name and not at all otherwise; a run that failed with the
\* local-port-in-use error has issued nothing but the local port query.
C9_KillOnlyBeforeCollision ==
    \A r \in Runs : IsJp(r) =>
        /\ outcome[r] = "RemotePortInUseError" =>
              /\ \A c \in StartSet \cup {"forward"} : ~Issued(r, c)
              /\ Count(r, "kill") = IF \E i \in Idx(r) : log[r][i].c = "tmux_ls" /\ log[r][i].out
                                    THEN 1 ELSE 0
        /\ outcome[r] = "PortInUseError" => (Len(log[r]) = 1 /\ log[r][1].c = "lsof_local")

C9_Witness ==
    \E r \in Runs : IsJp(r) /\ outcome[r] = "RemotePortInUseError" /\ Issued(r, "kill")

\* C10: the forwarding command is issued, or about to be issued, only in a
\* run whose local port query reported the port free and whose most recent
\* status probe returned Up.
C10_PortBindingValidity ==
    \A r \in Runs : (IsJp(r) /\ (pc[r] = "forward" \/ Issued(r, "forward"))) =>
        /\ LocalFreeSeen(r)
        /\ probeRes[r] # <<>>
        /\ probeRes[r][Len(probeRes[r])] = "up"

C10_Witness ==
    \E r \in Runs : IsJp(r) /\ Issued(r, "forward") /\ LocalFreeSeen(r)


\* C11: a run of jp_start_func whose forwarding command failed has ended
\* with the error of that command; the forwarding command was issued once,
\* it is the last command of the run, and the run did not return normally.
ForwardFailed(r) == \E i \in Idx(r) : log[r][i].c = "forward" /\ ~log[r][i].ok

C11_TunnelFailureTerminal ==
    \A r \in Runs : (IsJp(r) /\ ForwardFailed(r)) =>
        /\ pc[r] = "done"
        /\ outcome[r] = "CalledProcessError"
        /\ Count(r, "forward") = 1
        /\ log[r][Len(log[r])].c = "forward"

C11_Witness ==
    \E r \in Runs : IsJp(r) /\ ForwardFailed(r) /\ outcome[r] = "CalledProcessError"


\* C12: when the session-listing command of a run of jp_start_func fails,
\* check_tmux_session_running reports no session and raises nothing: no kill
\* is issued and the run goes on to the remote port check.
ListingFailed(r, i) == log[r][i].c = "tmux_ls" /\ ~log[r][i].ok

C12_ListingFailureIsEmpty ==
    \A r \in Runs : IsJp(r) => \A i \in Idx(r) : ListingFailed(r, i) =>
        /\ log[r][i].out = FALSE
        /\ outcome[r] # "UnboundLocalError"
        /\ IF i = Len(log[r])
           THEN pc[r] = "lsof_remote" /\ outcome[r] = "running"
           ELSE log[r][i + 1].c = "lsof_remote"


\* C13: the six commands of start_jupyter_server_remote are issued in the
\* fixed order, each one directly after the success of the one before it;
\* a failed step is the last command of the run, which has ended with the
\* error of that step, and the session created by the first step is still
\* there (no kill or other command follows the failure).
StepOf(c) == CHOOSE k \in 1..Len(StartCmds) : StartCmds[k] = c

C13_OrderedFailFastStart ==
    \A r \in Runs : \A i \in Idx(r) : log[r][i].c \in StartSet =>
        LET k == StepOf(log[r][i].c) IN
        /\ k > 1 => /\ i > 1
                    /\ log[r][i - 1].c = StartCmds[k - 1]
                    /\ log[r][i - 1].ok
        /\ k = 1 => \A j \in 1..(i - 1) : log[r][j].c \notin StartSet
        /\ ~log[r][i].ok =>
              /\ i = Len(log[r])
              /\ pc[r] = "done"
              /\ outcome[r] = "CalledProcessError"
              /\ k > 1 => args[r].tmux_session_name \in remote[args[r].target].sessions

C13_Witness ==
    \E r \in Runs :
        /\ Len(log[r]) >= 2
        /\ log[r][Len(log[r])].c = "split"
        /\ ~log[r][Len(log[r])].ok
        /\ log[r][Len(log[r]) - 1].c = "rename"
        /\ outcome[r] = "CalledProcessError"
        /\ args[r].tmux_session_name \in remote[args[r].target].sessions


\* C14: in a run of jp_start_func whose first status probe returned Up, no
\* session-listing, kill, remote-port-check or session-start command is
\* issued: after the local port query the run issues only the commands of
\* the status probe and the forwarding command, that is, those of
\* tunnel_jupyter_ports.
FirstProbeUp(r) == IsJp(r) /\ probeRes[r] # <<>> /\ probeRes[r][1] = "up"
TunnelSet == {"check_file", "scan", "touch", "copy", "query", "envs", "forward"}

C14_AlreadyUpShortcut ==
    \A r \in Runs : FirstProbeUp(r) =>
        /\ \A c \in {"tmux_ls", "kill", "lsof_remote"} \cup StartSet : ~Issued(r, c)
        /\ \A i \in Idx(r) : i > 1 => log[r][i].c \in TunnelSet
        /\ pc[r] \notin {"tmux_ls", "kill", "lsof_remote", "start"}

C14_Witness ==
    \E r \in Runs : FirstProbeUp(r) /\ Len(probeRes[r]) >= 2 /\ Issued(r, "forward")


\* C15: every command a run of jp_start_func issues a second time is one of
\* the read-only commands of the status probe; so each mutating command
\* (file creation, copy, kill, the six start steps, forwarding) is issued at
\* most once, and no mutating command is issued while the run is inside the
\* polling loop of tunnel_jupyter_ports.
ProbeSet == {"check_file", "scan", "query", "envs"}
InPollingLoop(r) == caller[r] = "poll" /\ pc[r] \notin {"forward", "done", "idle"}

C15_Step ==
    \A r \in Runs :
        (IsJp(r) /\ pc[r] \notin {"idle", "done"} /\ log'[r] # log[r]) =>
            LET e == log'[r][Len(log'[r])] IN
            /\ e.c \in MutatingSet => ~Issued(r, e.c)
            /\ Issued(r, e.c) => e.c \in ProbeSet
            /\ InPollingLoop(r) => e.c \in ProbeSet

C15_NoRetryOfMutatingActions == [][C15_Step]_vars

C15_Witness ==
    \E r \in Runs : /\ IsJp(r)
                    /\ Count(r, "launch") = 1
                    /\ Count(r, "query") >= 3
                    /\ Count(r, "forward") = 1


\* C16: tunnel_jupyter_ports keeps probing until a probe returns Up. While
\* every probe of the loop has returned Down the run is still inside the
\* loop: it has not ended and has not issued the forwarding command. A run
\* waiting in the loop makes its next probe (up to the MaxProbes probes the
\* model follows), and once a probe of the loop has returned Up the
\* forwarding command is eventually issued.
AllDown(r) ==
    /\ TunnelProbes(r) # <<>>
    /\ \A i \in 1..Len(TunnelProbes(r)) : TunnelProbes(r)[i] = "down"

LoopUp(r) == Len(probeRes[r]) >= 2 /\ probeRes[r][Len(probeRes[r])] = "up"

C16_StillWaiting ==
    \A r \in Runs : (IsJp(r) /\ AllDown(r)) =>
        /\ outcome[r] = "running"
        /\ pc[r] \in {"sleep", "check_file", "scan", "touch", "copy", "query", "envs"}
        /\ ~Issued(r, "forward")

C16_PollingLiveness ==
    /\ []C16_StillWaiting
    /\ \A r \in Runs : \A n \in 1..(MaxProbes - 1) :
          (IsJp(r) /\ pc[r] = "sleep" /\ Len(probeRes[r]) = n)
              ~> (IsJp(r) /\ Len(probeRes[r]) = n + 1)
    /\ \A r \in Runs : (IsJp(r) /\ LoopUp(r)) ~> (IsJp(r) /\ Issued(r, "forward"))

C16_Witness ==
    \E r \in Runs : /\ IsJp(r)
                    /\ probeRes[r] = <<"down", "down", "up">>
                    /\ Issued(r, "forward")


\* C17: when the activation file is absent and the login profile holds no
\* initialization block (the channel being up), the scan of the profile is
\* the last command of check_if_jp_server_is_running, which has failed with
\* the bootstrap error: no file creation, copy or status query follows.
NoBlockScanned(r, i) ==
    /\ log[r][i].c = "scan"
    /\ ~log[r][i].exact
    /\ flips = 0
    /\ chanUp[args[r].target]

C17_BootstrapFailure ==
    \A r \in Runs : InProbe(r) => \A i \in Idx(r) : NoBlockScanned(r, i) =>
        /\ i = Len(log[r])
        /\ pc[r] = "done"
        /\ outcome[r] = "BootstrapError"


\* C18: after a failed status query exactly one environment listing is
\* issued, and it is the last command of the probe; when the listing
\* succeeds the probe has raised the environment-not-found error if the
\* requested environment is not among the listed ones and the generic probe
\* error if it is; the probe never returns a boolean.
QueryFailed(r, i) == log[r][i].c = "query" /\ ~log[r][i].ok

C18_ProbeFailureClassification ==
    \A r \in Runs : InProbe(r) => \A i \in Idx(r) : QueryFailed(r, i) =>
        IF i = Len(log[r])
        THEN pc[r] = "envs" /\ outcome[r] = "running"
        ELSE /\ i + 1 = Len(log[r])
             /\ log[r][i + 1].c = "envs"
             /\ pc[r] = "done"
             /\ outcome[r] \notin {"True", "False", "ok"}
             /\ log[r][i + 1].ok =>
                   outcome[r] = IF log[r][i + 1].exact THEN "ProbeError"
                                ELSE "EnvironmentNotFoundError"


\* C19: the kill command never ends a run of jp_start_func: whether it
\* succeeded or failed, the run goes on to the remote port check, which is
\* the next command issued.
C19_KillIsBestEffort ==
    \A r \in Runs : IsJp(r) => \A i \in Idx(r) : log[r][i].c = "kill" =>
        IF i = Len(log[r])
        THEN pc[r] = "lsof_remote" /\ outcome[r] = "running"
        ELSE log[r][i + 1].c = "lsof_remote"

C19_Witness ==
    \E r \in Runs : \E i \in Idx(r) :
        /\ IsJp(r)
        /\ log[r][i].c = "kill" /\ ~log[r][i].ok
        /\ i < Len(log[r])
        /\ log[r][i + 1].c = "lsof_remote"


\* C20: a port query of a run of jp_start_func reports the port as in use
\* exactly when its command succeeded; a query that failed reports the port
\* as free and the run goes on with its next command; no port query ends
\* the run with an error of its own.
PortQueries == {"lsof_local", "lsof_remote"}
AfterFreePort(c) == IF c = "lsof_local" THEN "check_file" ELSE "start"
NextCommand(c) == IF c = "lsof_local" THEN "check_file" ELSE "new_session"

C20_StatusIsSuccess ==
    \A r \in Runs : IsJp(r) => \A i \in Idx(r) : log[r][i].c \in PortQueries =>
        /\ log[r][i].out <=> log[r][i].ok
        /\ ~log[r][i].ok =>
              IF i = Len(log[r])
              THEN pc[r] = AfterFreePort(log[r][i].c) /\ outcome[r] = "running"
              ELSE log[r][i + 1].c = NextCommand(log[r][i].c)

C20_PortQueryFailureMeansFree ==
    /\ C20_StatusIsSuccess
    /\ \A r \in Runs : IsJp(r) => outcome[r] # "FileNotFoundError"


\* C21: two concurrent runs of jp_start_func against the same target and
\* session name are not coordinated. A run that has observed the service
\* down, no session of its name and the remote port free issues the
\* session-creation command whatever the other run has done, so both runs
\* can issue it for the same name; of two such creations at most one
\* succeeds, and the run whose creation failed has ended with its error.
ObservedAbsent(r) ==
    /\ IsJp(r)
    /\ probeRes[r] # <<>> /\ probeRes[r][1] = "down"
    /\ \E i \in Idx(r) : /\ i < Len(log[r])
                         /\ log[r][i].c = "tmux_ls" /\ log[r][i].ok /\ ~log[r][i].out
                         /\ log[r][i + 1].c = "lsof_remote" /\ ~log[r][i + 1].out

Created(r) == \E i \in Idx(r) : log[r][i].c = "new_session" /\ log[r][i].ok

SameSession(r, q) ==
    /\ r # q
    /\ args[r].target = args[q].target
    /\ args[r].tmux_session_name = args[q].tmux_session_name

C21_SameTargetRace ==
    \A r \in Runs :
        /\ ObservedAbsent(r) => (pc[r] = "start" /\ step[r] = 1) \/ Issued(r, "new_session")
        /\ \A q \in Runs :
              (SameSession(r, q) /\ ObservedAbsent(r) /\ ObservedAbsent(q)
                 /\ Issued(r, "new_session") /\ Issued(q, "new_session")) =>
                  /\ ~(Created(r) /\ Created(q))
                  /\ ~Created(r) => outcome[r] = "CalledProcessError"

C21_Witness ==
    \E r \in Runs, q \in Runs :
        /\ SameSession(r, q)
        /\ ObservedAbsent(r) /\ ObservedAbsent(q)
        /\ Created(r)
        /\ Issued(q, "new_session") /\ ~Created(q)
        /\ flips = 0


\* C22: what a run of jp_start_func reads is the state of its own target,
\* the channel to it and whether its own local port is in use; its steps are
\* determined by that and by its own position. Two concurrent runs against
\* different targets do not interfere when no step of one run changes what
\* the other, still running, reads, and neither run finds its local port
\* (free when both started) occupied. This holds when the runs also use
\* different local ports; with the same local port it does not.
Reads(r) == <<remote[args[r].target], chanUp[args[r].target], args[r].p_local \in localBusy>>
Steps(q) == pc'[q] # pc[q] \/ log'[q] # log[q]
Running(r) == IsJp(r) /\ pc[r] \notin {"idle", "done"}
OtherTarget(r, q) == r # q /\ IsJp(r) /\ IsJp(q) /\ args[r].target # args[q].target
OtherPort(r, q) == args[r].p_local # args[q].p_local

\* the claim as stated: different targets, any local ports
C22_NonInterference ==
    /\ [][\A r \in Runs, q \in Runs :
            (OtherTarget(r, q) /\ Running(r) /\ Steps(q)) => Reads(r)' = Reads(r)]_vars
    /\ [](\A r \in Runs, q \in Runs : OtherTarget(r, q) => ~LocalBusySeen(r))

\* the claim for runs that use different local ports
C22_NonInterferenceDistinctPorts ==
    /\ [][\A r \in Runs, q \in Runs :
            (OtherTarget(r, q) /\ OtherPort(r, q) /\ Running(r) /\ Steps(q))
                => Reads(r)' = Reads(r)]_vars
    /\ [](\A r \in Runs, q \in Runs :
            (OtherTarget(r, q) /\ OtherPort(r, q)) => ~LocalBusySeen(r))

C22_Witness ==
    \E r \in Runs, q \in Runs :
        /\ OtherTarget(r, q) /\ OtherPort(r, q)
        /\ outcome[r] = "ok" /\ outcome[q] = "ok"
        /\ Issued(r, "launch") /\ Issued(q, "launch")
        /\ localBusy = {args[r].p_local, args[q].p_local}


\* C23: after any sequence of calls the command registry of every manager
\* holds exactly the commands sbatch accepted for it, in submission order
\* (for a manager that loaded a registry file: after the loaded commands).
C23_RegistryIsHistory ==
    \A m \in Managers : instance[m].built =>
        command_registry_of(m) = submitted[ListOf(m)]


\* C24: the managers that did not load a registry file share one registry:
\* after execute_commands (or re_execute_all) of one of them, what
\* get_executed_commands of every other one returns is the registry of the
\* caller, with the commands the call recorded; and what
\* get_executed_commands returned is the registry of each of them.
Unloaded(m) == instance[m].built /\ ~instance[m].from_file

C24_Step ==
    \A m \in Managers, o \in Managers :
        /\ (Unloaded(m) /\ Unloaded(o) /\ call'.m = m
              /\ call'.fn \in {"execute_commands", "re_execute_all"})
            => command_registry_of(o)' = command_registry_of(m)'
        /\ (Unloaded(m) /\ Unloaded(o) /\ call'.m = m /\ call'.fn = "get_executed_commands")
            => call'.result = command_registry_of(o)'

C24_SharedRegistry == [][C24_Step]_vars

C24_Witness ==
    \E m \in Managers, o \in Managers :
        /\ m # o
        /\ Unloaded(m) /\ Unloaded(o)
        /\ instance[o].dry_run /\ instance[o].renders
        /\ ~instance[m].dry_run
        /\ call.fn = "get_executed_commands" /\ call.m = o
        /\ call.result # <<>>
        /\ call.result = submitted["class"]


\* C25: whenever the file check of check_if_jp_server_is_running has found
\* the activation file present and the probe has skipped the bootstrap, going
\* straight to the status query, the file contains the initialization block:
\* no state has the file present without the block.
FoundPresent(r) ==
    /\ InProbe(r)
    /\ pc[r] = "query"
    /\ log[r] # <<>>
    /\ log[r][Len(log[r])].c = "check_file"
    /\ log[r][Len(log[r])].ok /\ log[r][Len(log[r])].out

DryRunCall(m) ==
    /\ call'.fn = "execute_commands"
    /\ call'.m = m
    /\ instance[m].built
    /\ instance[m].dry_run

C26_DryRunLeavesRegistry ==
    [][\A m \in Managers : DryRunCall(m) =>
          /\ command_registry_of(m)' = command_registry_of(m)
          /\ submitted' = submitted]_vars

====
